---- MODULE Spec2Model ----
(***************************************************************************)
(* Model of the V2 trade evaluator, POST /api/evaluate-trades               *)
(* (src/unnamed/part_001), as mounted by the server (src/unnamed/part_002). *)
(*                                                                          *)
(* Numbers.  JavaScript numbers are modelled as exact rationals             *)
(* [n |-> numerator, d |-> denominator], d > 0, in lowest terms.  The       *)
(* record [n |-> 0, d |-> 0] stands for a field that is absent              *)
(* (undefined), i.e. one for which typeof x === "number" is false.          *)
(* Calendar dates "YYYY-MM-DD" parse to UTC midnight, so a date is modelled *)
(* by its day number.                                                       *)
(* The free-text label and note of a breakdown part are left out, except    *)
(* for the one place where building the note can raise a TypeError          *)
(* (trade.beta.toFixed on a beta that is not a number).                     *)
(***************************************************************************)
EXTENDS Integers, Sequences, FiniteSets, TLC

VARIABLES tolerances, trades, tradesIsArray, status, results, error, locals

vars == <<tolerances, trades, tradesIsArray, status, results, error, locals>>

-----------------------------------------------------------------------------
(* Rational arithmetic *)

Abs(x) == IF x < 0 THEN -x ELSE x

RECURSIVE GCD(_, _)
GCD(a, b) == IF b = 0 THEN a ELSE GCD(b, a % b)

\* The rational n/d (d # 0) in lowest terms with a positive denominator.
Rat(n, d) ==
    LET s == IF d < 0 THEN -1 ELSE 1
        g == GCD(Abs(n), Abs(d))
    IN  [n |-> (s * n) \div g, d |-> (s * d) \div g]

Num(k) == [n |-> k, d |-> 1]

Unset == [n |-> 0, d |-> 0]

\* typeof x === "number"
IsNumber(x) == x.d # 0

RAdd(a, b) == Rat(a.n * b.d + b.n * a.d, a.d * b.d)
RSub(a, b) == Rat(a.n * b.d - b.n * a.d, a.d * b.d)
RMul(a, b) == Rat(a.n * b.n, a.d * b.d)
RDiv(a, b) == Rat(a.n * b.d, a.d * b.n)
RLt(a, b) == a.n * b.d < b.n * a.d
RLe(a, b) == a.n * b.d <= b.n * a.d
RMax(a, b) == IF RLt(a, b) THEN b ELSE a
RMin(a, b) == IF RLt(b, a) THEN b ELSE a

RECURSIVE Pow10(_)
Pow10(k) == IF k = 0 THEN 1 ELSE 10 * Pow10(k - 1)

\* parseFloat(x.toFixed(k)): x rounded to k decimals, ties away from zero.
ToFixed(x, k) ==
    LET p == Pow10(k)
        q == (Abs(x.n) * p) \div x.d
        r == (Abs(x.n) * p) % x.d
        m == IF 2 * r >= x.d THEN q + 1 ELSE q
    IN  Rat(IF x.n < 0 THEN -m ELSE m, p)

-----------------------------------------------------------------------------
(* Per-trade evaluation: the callback of trades.map *)

\* new Date("YYYY-MM-DD").getTime(), in days rather than milliseconds: a
\* calendar date parses to UTC midnight, a whole number of days, and the only
\* use of the value is the quotient by 1000 * 60 * 60 * 24 below.
GetTimeInDays(dayNumber) == dayNumber

\* Math.ceil(a / b) for b > 0
CeilDiv(a, b) == -((-a) \div b)

\* dte = Math.max(1, Math.ceil((expiration.getTime() - trade.getTime()) / msPerDay))
Dte(trade) ==
    LET diff == GetTimeInDays(trade.expirationDate) - GetTimeInDays(trade.tradeDate)
        days == CeilDiv(diff, 1)
    IN  IF days < 1 THEN 1 ELSE days

Premium(trade) == RMul(trade.bid, Num(100))

Breakeven(trade) ==
    IF trade.type = "put"
    THEN RSub(trade.strike, trade.bid)
    ELSE RAdd(trade.strike, trade.bid)

\* (strike > 0 ? bid / strike : 0) * (365 / dte)
AnnualROI(trade) ==
    RMul(IF trade.strike.n > 0 THEN RDiv(trade.bid, trade.strike) ELSE Num(0),
         Rat(365, Dte(trade)))

CollateralAtRisk(trade) == RMul(trade.strike, Num(100))

\* null (Unset) unless a put with a numeric supportLevel and strike > 0
SupportVariancePct(trade) ==
    IF trade.type = "put" /\ IsNumber(trade.supportLevel) /\ trade.strike.n > 0
    THEN RMul(RDiv(RSub(trade.supportLevel, trade.strike), trade.strike), Num(100))
    ELSE Unset

DefaultHardFailThreshold == Rat(30, 100)

HardFailThresholdDefaultOnly(tol) == DefaultHardFailThreshold

HardFailThreshold(tol) ==
    IF IsNumber(tol.minROI) THEN tol.minROI ELSE DefaultHardFailThreshold

HardFailOff(annualROI, hardFailThreshold) == FALSE

HardFail(annualROI, hardFailThreshold) == RLt(annualROI, hardFailThreshold)

heavyPenaltyInverted(val, tol) ==
    IF RLe(val, tol) THEN Num(1) ELSE RDiv(val, tol)

heavyPenalty(val, tol) ==
    IF RLe(val, tol) THEN Num(1)
    ELSE LET ratio == IF tol.n > 0 THEN RDiv(tol, val) ELSE Num(0)
         IN  RMax(Num(0), RMin(Num(1), RMul(ratio, ratio)))

maxPenaltyPool == 15

addPenaltyFromExceedance(overRatio) ==
    IF RLe(overRatio, Num(1)) THEN Num(0)
    ELSE RMax(Num(0), RSub(Num(1), RDiv(Num(1), overRatio)))

\* What one criterion block adds: to totalPossible, to score, to breakdown and
\* to penaltyPool; fault is TRUE when the block throws.
Skipped == [total |-> 0, earned |-> Num(0), parts |-> <<>>, penalty |-> Num(0), fault |-> FALSE]

Part(key, W, earned) == [key |-> key, max |-> W, earned |-> earned]

Scored(key, W, earned, penalty) ==
    [total |-> W, earned |-> earned, parts |-> <<Part(key, W, earned)>>,
     penalty |-> penalty, fault |-> FALSE]

Thrown == [total |-> 0, earned |-> Num(0), parts |-> <<>>, penalty |-> Num(0), fault |-> TRUE]

RoiCriterionAlways(tol, annualROI) ==
    Scored("roi", 35, Num(35), Num(0))

RoiCriterion(tol, annualROI) ==
    IF IsNumber(tol.minROI)
    THEN IF ~RLt(annualROI, tol.minROI)
         THEN Scored("roi", 35, Num(35), Num(0))
         ELSE Scored("roi", 35,
                     RMax(Num(0), RMul(RDiv(annualROI, tol.minROI), Num(35))), Num(0))
    ELSE Skipped

DeltaCriterion(tol, trade) ==
    IF IsNumber(tol.maxDelta) /\ tol.maxDelta.n > 0
    THEN IF RLe(trade.delta, tol.maxDelta)
         THEN Scored("delta", 25, Num(25), Num(0))
         ELSE Scored("delta", 25,
                     RMul(Num(25), heavyPenalty(trade.delta, tol.maxDelta)),
                     addPenaltyFromExceedance(RDiv(trade.delta, tol.maxDelta)))
    ELSE Skipped

DteCriterion(tol, dte) ==
    IF IsNumber(tol.maxDTE) /\ tol.maxDTE.n > 0
    THEN IF RLe(Num(dte), tol.maxDTE)
         THEN Scored("dte", 15, Num(15), Num(0))
         ELSE Scored("dte", 15,
                     RMul(Num(15), heavyPenalty(Num(dte), tol.maxDTE)),
                     addPenaltyFromExceedance(RDiv(Num(dte), tol.maxDTE)))
    ELSE Skipped

\* trade.beta is compared and divided after numeric coercion, but the note of
\* the exceeding branch calls trade.beta.toFixed(2), which throws a TypeError
\* when beta is not a number (a numeric string, say).
BetaCriterion(tol, trade) ==
    IF IsNumber(tol.maxBeta) /\ tol.maxBeta.n > 0
    THEN IF RLe(trade.beta, tol.maxBeta)
         THEN Scored("beta", 5, Num(5), Num(0))
         ELSE IF trade.betaType # "number"
              THEN Thrown
              ELSE Scored("beta", 5,
                          RMul(Num(5), heavyPenalty(trade.beta, tol.maxBeta)),
                          addPenaltyFromExceedance(RDiv(trade.beta, tol.maxBeta)))
    ELSE Skipped

CollateralCriterionInclusive(collateralAtRisk) ==
    Scored("collateral", 10,
           IF RLe(collateralAtRisk, Num(20000)) THEN Num(10)
           ELSE IF RLe(collateralAtRisk, Num(50000)) THEN Num(5)
           ELSE Num(2),
           Num(0))

CollateralCriterion(collateralAtRisk) ==
    Scored("collateral", 10,
           IF RLt(collateralAtRisk, Num(20000)) THEN Num(10)
           ELSE IF RLe(collateralAtRisk, Num(50000)) THEN Num(5)
           ELSE Num(2),
           Num(0))

SupportCriterion(supportVariancePct) ==
    IF IsNumber(supportVariancePct)
    THEN Scored("support", 10,
                IF ~RLt(supportVariancePct, Num(10)) THEN Num(10)
                ELSE IF ~RLt(supportVariancePct, Num(5)) THEN Num(5)
                ELSE Num(2),
                Num(0))
    ELSE Skipped

Clamp01(x) == RMax(Num(0), RMin(Num(1), x))

PenaltiesAppliedUncapped(penaltyPool) == RMul(Num(maxPenaltyPool), penaltyPool)

PenaltiesApplied(penaltyPool) ==
    RMin(Num(maxPenaltyPool), RMul(Num(maxPenaltyPool), Clamp01(penaltyPool)))

PointsFinalUnfloored(score, penaltiesApplied) == RSub(score, penaltiesApplied)

PointsFinal(score, penaltiesApplied) == RMax(Num(0), RSub(score, penaltiesApplied))

FinalScore(pointsFinal, totalPossible) ==
    IF totalPossible > 0
    THEN RMul(RDiv(pointsFinal, Num(totalPossible)), Num(100))
    ELSE Num(100)

SuggestionFromRounded(finalScore) ==
    IF ~RLt(ToFixed(finalScore, 1), Num(90)) THEN "Conservative"
    ELSE IF ~RLt(ToFixed(finalScore, 1), Num(70)) THEN "Neutral"
    ELSE "Aggressive"

Suggestion(finalScore) ==
    IF ~RLt(finalScore, Num(90)) THEN "Conservative"
    ELSE IF ~RLt(finalScore, Num(70)) THEN "Neutral"
    ELSE "Aggressive"

\* The record returned on the hard-fail path: {...trade, premium, ...}
HardFailResult(trade, annualROI) ==
    [premium |-> Premium(trade),
     breakeven |-> Breakeven(trade),
     annualROI |-> ToFixed(annualROI, 4),
     dte |-> Dte(trade),
     score |-> Num(0),
     suggestion |-> "Aggressive",
     collateralAtRisk |-> CollateralAtRisk(trade),
     supportVariancePct |-> SupportVariancePct(trade),
     hardFail |-> TRUE,
     breakdown |-> <<Part("roi-hard-fail", 35, Num(0))>>,
     totalPossible |-> 35,
     pointsBeforePenalties |-> Num(0),
     penaltiesApplied |-> Num(0),
     pointsFinal |-> Num(0)] @@ trade

\* The callback of trades.map on one trade.  fault: the callback threw;
\* locals: its local variables when it returns; result: the record it returns.
EvaluateTrade(tol, trade) ==
    LET dte == Dte(trade)
        annualROI == AnnualROI(trade)
        collateralAtRisk == CollateralAtRisk(trade)
        supportVariancePct == SupportVariancePct(trade)
        hardFailThreshold == HardFailThreshold(tol)
        hardFail == HardFail(annualROI, hardFailThreshold)
    IN  IF hardFail
        THEN [fault |-> FALSE,
              locals |-> [hardFail |-> TRUE, annualROI |-> annualROI,
                          hardFailThreshold |-> hardFailThreshold],
              result |-> HardFailResult(trade, annualROI)]
        ELSE LET roi == RoiCriterion(tol, annualROI)
                 delta == DeltaCriterion(tol, trade)
                 dtePart == DteCriterion(tol, dte)
                 beta == BetaCriterion(tol, trade)
                 collateral == CollateralCriterion(collateralAtRisk)
                 support == SupportCriterion(supportVariancePct)
                 score == RAdd(RAdd(RAdd(RAdd(RAdd(roi.earned, delta.earned),
                               dtePart.earned), beta.earned), collateral.earned),
                               support.earned)
                 totalPossible == roi.total + delta.total + dtePart.total
                                  + beta.total + collateral.total + support.total
                 penaltyPool == RAdd(RAdd(delta.penalty, dtePart.penalty), beta.penalty)
                 breakdown == roi.parts \o delta.parts \o dtePart.parts \o beta.parts
                              \o collateral.parts \o support.parts
                 penaltiesApplied == PenaltiesApplied(penaltyPool)
                 pointsBeforePenalties == score
                 pointsFinal == PointsFinal(score, penaltiesApplied)
                 finalScore == FinalScore(pointsFinal, totalPossible)
                 suggestion == Suggestion(finalScore)
             IN  IF beta.fault
                 THEN [fault |-> TRUE, locals |-> [hardFail |-> FALSE], result |-> [hardFail |-> FALSE]]
                 ELSE [fault |-> FALSE,
                       locals |-> [hardFail |-> FALSE, annualROI |-> annualROI,
                                   hardFailThreshold |-> hardFailThreshold,
                                   score |-> score, penaltyPool |-> penaltyPool,
                                   penaltiesApplied |-> penaltiesApplied,
                                   pointsFinal |-> pointsFinal,
                                   finalScore |-> finalScore],
                       result |->
                           [premium |-> Premium(trade),
                            breakeven |-> Breakeven(trade),
                            annualROI |-> ToFixed(annualROI, 4),
                            dte |-> dte,
                            score |-> ToFixed(finalScore, 1),
                            suggestion |-> suggestion,
                            collateralAtRisk |-> collateralAtRisk,
                            supportVariancePct |-> supportVariancePct,
                            hardFail |-> FALSE,
                            breakdown |-> breakdown,
                            totalPossible |-> totalPossible,
                            pointsBeforePenalties |-> ToFixed(pointsBeforePenalties, 2),
                            penaltiesApplied |-> ToFixed(penaltiesApplied, 2),
                            pointsFinal |-> ToFixed(pointsFinal, 2)] @@ trade]

\* trades.map(callback): an exception in the callback leaves map, and nothing
\* of the array built so far is kept.
RECURSIVE MapTrades(_, _)
MapTrades(tol, ts) ==
    IF ts = <<>>
    THEN [fault |-> FALSE, out |-> <<>>]
    ELSE LET e == EvaluateTrade(tol, Head(ts))
         IN  IF e.fault
             THEN [fault |-> TRUE, out |-> <<>>]
             ELSE LET rest == MapTrades(tol, Tail(ts))
                  IN  IF rest.fault
                      THEN [fault |-> TRUE, out |-> <<>>]
                      ELSE [fault |-> FALSE, out |-> <<e>> \o rest.out]

\* The server's error-handling middleware: what it answers for an error
\* passed on by a route.
ErrorHandler(messageIncludesCORS) ==
    IF messageIncludesCORS
    THEN [status |-> 403, error |-> "CORS blocked"]
    ELSE [status |-> 500, error |-> "Internal Server Error"]

-----------------------------------------------------------------------------
(* The route handler *)

\* status = 0: the request is parsed and the handler has not run yet.
Pending == status = 0

\* router.post("/"): answers 400 for no trades, else maps the callback over
\* the trades and answers the results; a TypeError thrown by the callback
\* reaches ErrorHandler, whose answer is sent instead.
Post ==
    /\ Pending
    /\ IF ~tradesIsArray \/ Len(trades) = 0
       THEN /\ status' = 400
            /\ error' = "No trades provided"
            /\ results' = <<>>
            /\ locals' = <<>>
       ELSE LET m == MapTrades(tolerances, trades)
            IN  IF m.fault
                THEN /\ status' = ErrorHandler(FALSE).status
                     /\ error' = ErrorHandler(FALSE).error
                     /\ results' = <<>>
                     /\ locals' = <<>>
                ELSE /\ status' = 200
                     /\ error' = ""
                     /\ results' = [i \in 1..Len(m.out) |-> m.out[i].result]
                     /\ locals' = [i \in 1..Len(m.out) |-> m.out[i].locals]
    /\ UNCHANGED <<tolerances, trades, tradesIsArray>>

Next == Post

-----------------------------------------------------------------------------
(* Request bodies *)

MaxTrades == 2

BatchTrades ==
    [symbol : {"AAPL", "MSFT"}, tradeDate : {100}, expirationDate : {131},
     type : {"put"}, strike : {Num(150), Num(600)}, bid : {Num(20)},
     supportLevel : {Unset}, beta : {Num(1), Num(2)},
     betaType : {"number", "string"}, delta : {Rat(30, 100)}]

BatchTolerances ==
    [maxDTE : {Num(30)}, minROI : {Unset, Rat(50, 100)},
     maxBeta : {Unset, Num(1)}, maxDelta : {Rat(30, 100)}]

RECURSIVE SeqsUpTo(_, _)
SeqsUpTo(S, k) ==
    IF k = 0 THEN {<<>>}
    ELSE LET shorter == SeqsUpTo(S, k - 1)
         IN  shorter \cup {Append(s, x) : s \in {t \in shorter : Len(t) = k - 1}, x \in S}

\* Single trades: every tier of collateral and of support variance, a DTE
\* clamped to 1, within and beyond maxDTE, deltas and betas within and beyond
\* the tolerance, and ROIs below, at and above each hard-fail threshold.
EvalTrades ==
    {t \in [symbol : {"AAPL"}, tradeDate : {100},
            expirationDate : {99, 173, 246},
            type : {"put", "call"}, strike : {Num(150), Num(200), Num(600)},
            bid : {Num(9), Num(20)},
            supportLevel : {Unset, Num(100), Num(160), Num(165)},
            beta : {Num(1), Num(2)}, betaType : {"number"},
            delta : {Rat(30, 100), Rat(51, 100), Rat(60, 100)}] :
        t.type = "call" => t.supportLevel \in {Unset, Num(165)}}

EvalTolerances ==
    [maxDTE : {Unset, Num(0), Num(73)}, minROI : {Unset, Rat(20, 100), Rat(50, 100)},
     maxBeta : {Unset, Num(0), Num(1)}, maxDelta : {Unset, Num(0), Rat(30, 100)}]

NoResponse ==
    /\ status = 0
    /\ error = ""
    /\ results = <<>>
    /\ locals = <<>>

\* A request with a batch of up to MaxTrades trades (or a body whose trades
\* is not an array) is pending.
Init ==
    /\ tolerances \in BatchTolerances
    /\ \/ tradesIsArray = TRUE /\ trades \in SeqsUpTo(BatchTrades, MaxTrades)
       \/ tradesIsArray = FALSE /\ trades = <<>>
    /\ NoResponse

\* A request with a single trade is pending.
InitEval ==
    /\ tolerances \in EvalTolerances
    /\ tradesIsArray = TRUE
    /\ trades \in {<<t>> : t \in EvalTrades}
    /\ NoResponse

Spec == Init /\ [][Next]_vars

SpecEval == InitEval /\ [][Next]_vars

-----------------------------------------------------------------------------
(* Properties *)

Answered == status = 200

Idx == 1..Len(results)

Scored200(i) == Answered /\ i \in Idx /\ ~results[i].hardFail

NoToleranceSet ==
    /\ ~IsNumber(tolerances.maxDTE)
    /\ ~IsNumber(tolerances.minROI)
    /\ ~IsNumber(tolerances.maxBeta)
    /\ ~IsNumber(tolerances.maxDelta)

\* The threshold the claims speak of: minROI when it is set, otherwise 0.30.
ClaimedThreshold == IF IsNumber(tolerances.minROI) THEN tolerances.minROI ELSE Rat(3, 10)

\* bid / strike * 365 / dte of a trade with strike > 0, from the trade's fields.
ClaimedROI(t) ==
    LET days == IF t.expirationDate - t.tradeDate < 1 THEN 1
                ELSE t.expirationDate - t.tradeDate
    IN  IF t.strike.n > 0
        THEN Rat(t.bid.n * t.strike.d * 365, t.bid.d * t.strike.n * days)
        ELSE Num(0)

\* C1: every returned score lies in [0, 100], on the hard-fail path and on the
\* scored path, whatever subset of the tolerances is set.
ScoreInRange ==
    Answered =>
        \A i \in Idx : RLe(Num(0), results[i].score) /\ RLe(results[i].score, Num(100))

\* A scored (not hard-failed) trade whose points were floored at 0 by the penalty.
ScoredAtFloor ==
    /\ Scored200(1)
    /\ results[1].score = Num(0)
    /\ RLt(locals[1].score, locals[1].penaltiesApplied)

\* C2: a trade whose annual ROI is below the hard-fail threshold is returned
\* with hardFail, score 0, suggestion Aggressive and the single breakdown entry
\* roi-hard-fail (max 35, earned 0); nothing else is scored for it.
HardFailShortCircuits ==
    Answered =>
        \A i \in Idx :
            RLt(ClaimedROI(trades[i]), ClaimedThreshold) =>
                /\ results[i].hardFail = TRUE
                /\ results[i].score = Num(0)
                /\ results[i].suggestion = "Aggressive"
                /\ results[i].breakdown =
                       <<[key |-> "roi-hard-fail", max |-> 35, earned |-> Num(0)]>>
                /\ results[i].totalPossible = 35

\* A trade that clears the default 0.30 but is hard-failed by the minROI set.
HardFailedByMinROI ==
    /\ Answered
    /\ results[1].hardFail
    /\ IsNumber(tolerances.minROI)
    /\ RLe(Rat(3, 10), ClaimedROI(trades[1]))
    /\ IsNumber(tolerances.maxDelta)

\* C3: for every non-empty sequence of trades the handler answers a sequence
\* of the same length whose i-th element carries the i-th trade's own fields
\* and is the evaluation of that trade: nothing dropped, duplicated or
\* reordered.
OrderPreservedForEveryBatch ==
    (~Pending /\ tradesIsArray /\ Len(trades) > 0) =>
        /\ Answered
        /\ Len(results) = Len(trades)
        /\ \A i \in 1..Len(trades) :
               \A f \in DOMAIN trades[i] : results[i][f] = trades[i][f]

\* What does hold of the order: a sequence that is answered has the request's
\* length and order, and a batch in which every beta is a number is answered.
AnsweredInOrder ==
    /\ Answered =>
           /\ Len(results) = Len(trades)
           /\ \A i \in 1..Len(trades) :
                  /\ \A f \in DOMAIN trades[i] : results[i][f] = trades[i][f]
                  /\ results[i] = EvaluateTrade(tolerances, trades[i]).result
    /\ (~Pending /\ tradesIsArray /\ Len(trades) > 0
            /\ \A i \in 1..Len(trades) : trades[i].betaType = "number") => Answered

\* C4: a fault while evaluating one trade does not abort the batch: every
\* other trade of the request is still evaluated and its result returned.
PerTradeIsolation ==
    (~Pending /\ tradesIsArray /\ Len(trades) > 0) =>
        \A i \in 1..Len(trades) :
            ~EvaluateTrade(tolerances, trades[i]).fault =>
                \E j \in 1..Len(results) :
                    results[j] = EvaluateTrade(tolerances, trades[i]).result

\* C5 as claimed: with no tolerance set, every trade that clears the default
\* 0.30 threshold has final score 100.
NoToleranceScoreIs100 ==
    (Answered /\ NoToleranceSet) =>
        \A i \in Idx :
            ~results[i].hardFail =>
                results[i].score = Num(100) /\ locals[i].finalScore = Num(100)

\* The support variance of a trade for which one is computed, from its fields.
ClaimedSupportComputed(t) ==
    t.type = "put" /\ IsNumber(t.supportLevel) /\ t.strike.n > 0

ClaimedSupportAtLeast(t, pct) ==
    RLe(Num(pct), Rat((t.supportLevel.n * t.strike.d - t.strike.n * t.supportLevel.d) * 100,
                      t.supportLevel.d * t.strike.n))

\* C5 amended: with no tolerance set, a trade that clears the default 0.30
\* threshold is scored on collateral (10) and, where a support variance was
\* computed, on support (10) only; its final score is 100 times the points
\* earned over a totalPossible of 10 or 20, and is 100 exactly when
\* strike * 100 < 20000 and the support variance is absent or at least 10.
NoToleranceScoredOnCollateralAndSupport ==
    (Answered /\ NoToleranceSet) =>
        \A i \in Idx :
            ~results[i].hardFail =>
                LET t == trades[i]
                    r == results[i]
                    sup == ClaimedSupportComputed(t)
                IN  /\ [k \in 1..Len(r.breakdown) |-> r.breakdown[k].key] =
                           (IF sup THEN <<"collateral", "support">> ELSE <<"collateral">>)
                    /\ r.totalPossible = (IF sup THEN 20 ELSE 10)
                    /\ r.penaltiesApplied = Num(0)
                    /\ locals[i].finalScore =
                           Rat(100 * r.pointsFinal.n, r.pointsFinal.d * r.totalPossible)
                    /\ (r.score = Num(100)) <=>
                           /\ t.strike.n * 100 < 20000 * t.strike.d
                           /\ sup => ClaimedSupportAtLeast(t, 10)

\* No tolerance set, not hard-failed, and the score is 50 (moderate collateral).
NoToleranceScoreIs50 ==
    /\ Answered
    /\ NoToleranceSet
    /\ ~results[1].hardFail
    /\ results[1].score = Num(50)
    /\ trades[1].strike = Num(200)

\* C6: every component of every returned breakdown has 0 <= earned <= max.
EarnedWithinMax ==
    Answered =>
        \A i \in Idx :
            \A k \in 1..Len(results[i].breakdown) :
                LET part == results[i].breakdown[k]
                IN  RLe(Num(0), part.earned) /\ RLe(part.earned, Num(part.max))

\* A delta component with partial credit from heavyPenalty.
PartialDeltaCredit ==
    /\ Scored200(1)
    /\ \E k \in 1..Len(results[1].breakdown) :
           LET part == results[1].breakdown[k]
           IN  /\ part.key = "delta"
               /\ RLt(Num(0), part.earned)
               /\ RLt(part.earned, Num(part.max))

\* The severity 1 - tolerance / value of a criterion that is gated in and
\* exceeded, else 0.
ClaimedSeverity(val, tol) ==
    IF IsNumber(tol) /\ tol.n > 0 /\ RLt(tol, val)
    THEN Rat(val.n * tol.d - tol.n * val.d, val.n * tol.d)
    ELSE Num(0)

ClaimedPenaltyPool(t) ==
    LET days == IF t.expirationDate - t.tradeDate < 1 THEN 1
                ELSE t.expirationDate - t.tradeDate
    IN  RAdd(RAdd(ClaimedSeverity(t.delta, tolerances.maxDelta),
                  ClaimedSeverity(Num(days), tolerances.maxDTE)),
             ClaimedSeverity(t.beta, tolerances.maxBeta))

\* C7: pointsFinal <= pointsBeforePenalties for every evaluated trade, as
\* returned (rounded to 2 decimals) and before rounding; for a scored trade
\* penaltiesApplied = min(15, 15 * clamp01(sum of the severities of the
\* exceeded delta, DTE and beta criteria)), 0 <= penaltiesApplied <= 15 and
\* pointsFinal = max(0, pointsBeforePenalties - penaltiesApplied); a
\* hard-failed trade's ledger is 0, 0, 0.
PenaltyLedger ==
    Answered =>
        \A i \in Idx :
            LET r == results[i]
                L == locals[i]
            IN  /\ RLe(r.pointsFinal, r.pointsBeforePenalties)
                /\ RLe(Num(0), r.penaltiesApplied) /\ RLe(r.penaltiesApplied, Num(15))
                /\ r.hardFail =>
                       /\ r.pointsBeforePenalties = Num(0)
                       /\ r.penaltiesApplied = Num(0)
                       /\ r.pointsFinal = Num(0)
                /\ ~r.hardFail =>
                       LET pool == ClaimedPenaltyPool(trades[i])
                           capped == IF RLt(Num(1), pool) THEN Num(1) ELSE pool
                           pen == RMul(Num(15), capped)
                       IN  /\ L.penaltiesApplied = pen
                           /\ RLe(L.pointsFinal, L.score)
                           /\ L.pointsFinal =
                                  (IF RLt(L.score, pen) THEN Num(0) ELSE RSub(L.score, pen))
                           /\ r.penaltiesApplied = ToFixed(pen, 2)
                           /\ r.pointsBeforePenalties = ToFixed(L.score, 2)
                           /\ r.pointsFinal = ToFixed(L.pointsFinal, 2)

\* Three criteria exceeded: the severities sum to more than 1, the deduction
\* is capped at 15 and points remain.
PenaltyCapped ==
    /\ Scored200(1)
    /\ RLt(Num(1), locals[1].penaltyPool)
    /\ results[1].penaltiesApplied = Num(15)
    /\ RLt(Num(0), results[1].pointsFinal)

\* The gate of each criterion, from the request.
ClaimedGate(key, t) ==
    CASE key = "roi" -> IsNumber(tolerances.minROI)
      [] key = "delta" -> IsNumber(tolerances.maxDelta) /\ tolerances.maxDelta.n > 0
      [] key = "dte" -> IsNumber(tolerances.maxDTE) /\ tolerances.maxDTE.n > 0
      [] key = "beta" -> IsNumber(tolerances.maxBeta) /\ tolerances.maxBeta.n > 0
      [] key = "collateral" -> TRUE
      [] key = "support" -> ClaimedSupportComputed(t)

ClaimedWeight(key) ==
    CASE key = "roi" -> 35
      [] key = "delta" -> 25
      [] key = "dte" -> 15
      [] key = "beta" -> 5
      [] key = "collateral" -> 10
      [] key = "support" -> 10

RECURSIVE SumWeights(_)
SumWeights(keys) ==
    IF keys = <<>> THEN 0 ELSE ClaimedWeight(Head(keys)) + SumWeights(Tail(keys))

\* C8: the breakdown of a scored trade is the subsequence of roi, delta, dte,
\* beta, collateral, support whose gates hold, one entry each in that order
\* with the criterion's weight as max, and totalPossible is the sum of those
\* weights.
BreakdownIsGatedSubsequence ==
    Answered =>
        \A i \in Idx :
            ~results[i].hardFail =>
                LET r == results[i]
                    Gated(key) == ClaimedGate(key, trades[i])
                    keys == SelectSeq(<<"roi", "delta", "dte", "beta", "collateral", "support">>,
                                      Gated)
                IN  /\ [k \in 1..Len(r.breakdown) |-> r.breakdown[k].key] = keys
                    /\ \A k \in 1..Len(r.breakdown) :
                           r.breakdown[k].max = ClaimedWeight(r.breakdown[k].key)
                    /\ r.totalPossible = SumWeights(keys)

\* minROI and maxBeta unset, maxDelta set to 0 (gated out), maxDTE set: dte,
\* collateral and support are scored.
ZeroAndUnsetTolerancesSkipped ==
    /\ Scored200(1)
    /\ ~IsNumber(tolerances.minROI)
    /\ ~IsNumber(tolerances.maxBeta)
    /\ tolerances.maxDelta = Num(0)
    /\ tolerances.maxDTE = Num(73)
    /\ Len(results[1].breakdown) = 3
    /\ results[1].totalPossible = 35

BucketOf(x) ==
    IF RLe(Num(90), x) THEN "Conservative"
    ELSE IF RLe(Num(70), x) THEN "Neutral"
    ELSE "Aggressive"

\* C9 as claimed: the suggestion of a scored trade is the bucket of the
\* returned score (rounded to one decimal).
SuggestionMatchesReturnedScore ==
    Answered =>
        \A i \in Idx :
            ~results[i].hardFail => results[i].suggestion = BucketOf(results[i].score)

\* C9 amended: the suggestion of a scored trade is the bucket of the unrounded
\* final score (Conservative iff >= 90, Neutral iff in [70, 90), Aggressive
\* iff < 70); the returned score is that final score rounded to one decimal,
\* so the two disagree only when the final score lies in [89.95, 90) or in
\* [69.95, 70).
SuggestionMatchesFinalScore ==
    Answered =>
        \A i \in Idx :
            ~results[i].hardFail =>
                LET fs == locals[i].finalScore
                    r == results[i]
                IN  /\ r.suggestion = BucketOf(fs)
                    /\ r.score = ToFixed(fs, 1)
                    /\ r.suggestion # BucketOf(r.score) =>
                           \/ RLe(Rat(8995, 100), fs) /\ RLt(fs, Num(90))
                           \/ RLe(Rat(6995, 100), fs) /\ RLt(fs, Num(70))

\* A final score just below 70 is returned as 70.0 with suggestion Aggressive.
RoundedUpAcrossBucket ==
    /\ Scored200(1)
    /\ RLt(locals[1].finalScore, Num(70))
    /\ results[1].score = Num(70)
    /\ results[1].suggestion = "Aggressive"

\* C10: whenever minROI is set and the trade is not hard-failed, the ROI
\* component earns the full 35 points.
RoiFullWhenNotHardFailed ==
    Answered =>
        \A i \in Idx :
            (~results[i].hardFail /\ IsNumber(tolerances.minROI)) =>
                results[i].breakdown[1] = [key |-> "roi", max |-> 35, earned |-> Num(35)]

\* A scored trade whose annual ROI equals the minROI that is set.
RoiAtMinimum ==
    /\ Scored200(1)
    /\ IsNumber(tolerances.minROI)
    /\ ClaimedROI(trades[1]) = tolerances.minROI
    /\ results[1].breakdown[1].key = "roi"

====
